---- MODULE Spec2Model ----
(***************************************************************************)
(* Model of backup_notes.py: the `backup` command (run, then prune) and    *)
(* the destination directory it publishes into.                            *)
(*                                                                         *)
(* A file name is a record [prefix, suffix]: "<TS>_<freq>.sql.xz" is       *)
(* [prefix |-> TS, suffix |-> freq], a NamedTemporaryFile name is          *)
(* [prefix |-> <<k, 0>>, suffix |-> "tmp"].  A timestamp TS, the string    *)
(* "YYYYMMDDHHmmssZZ", is the pair <<local time, zone offset>>.            *)
(* A file's content is the sequence of tokens the operating system holds   *)
(* for it; bytes still in a Python buffer are not part of it.              *)
(***************************************************************************)
EXTENDS Integers, Sequences, FiniteSets, TLC

\* ---------------------------------------------------------------- bounds
MaxRuns == 2      \* invocations started in one behaviour
MaxRows == 1      \* rows of the source database
Extra == 2        \* surplus files of a class in the fullest initial directory
MaxTicks == 1     \* clock advances in one behaviour
MaxCost == 3      \* invocations started plus failures injected in one behaviour
MaxPages == 17    \* pages of the source database in the page-by-page copy
MaxWrites == 2    \* transactions another connection commits during one copy
MaxLen == 3       \* elements of a '$objects' list

Procs == {1, 2}
Zones == {1, 2}   \* UTC offsets in hours ("+0100", "+0200")

\* ------------------------------------------------------ program constants
FREQS == {"hourly", "daily", "weekly", "monthly"}

NUM_FREQS == [hourly |-> 24, daily |-> 7, weekly |-> 8, monthly |-> 24]

Limit(f) == NUM_FREQS[f]

\* The classes the invocations of a behaviour are given (--freq) and the
\* initial directory holds files of.
Classes == {"hourly", "daily"}

\* ------------------------------------------------------------- file names
\* NOW.format("YYYYMMDDHHmmssZZ"): local wall-clock time, then the offset.
Format(t, z) == <<t + z, z>>

\* Order of the strings ZZ: '+' (0x2B) sorts before '-' (0x2D), then digits.
ZZKey(z) == IF z >= 0 THEN <<0, z>> ELSE <<1, 0 - z>>

PairLess(a, b) == a[1] < b[1] \/ (a[1] = b[1] /\ a[2] < b[2])

\* Order of the strings "YYYYMMDDHHmmssZZ" (fixed width, so character order
\* is the order of the local time and then of the offset string).
TSLess(a, b) == a[1] < b[1] \/ (a[1] = b[1] /\ PairLess(ZZKey(a[2]), ZZKey(b[2])))

BackupName(ts, f) == [prefix |-> ts, suffix |-> f]

TempName(k) == [prefix |-> <<k, 0>>, suffix |-> "tmp"]

\* Path order of two names matched by one glob pattern (same suffix).
NameLess(a, b) == TSLess(a.prefix, b.prefix)

\* Mutant: temporary files carry the backup suffix and match the pattern.
GlobWithTemp(d, f) == {n \in DOMAIN d : n.suffix \in {f, "tmp"}}

\* cfg.dst.glob(f"*_{freq}.sql.xz")
Glob(d, f) == {n \in DOMAIN d : n.suffix = f}

\* Mutant: the listing in descending order (sorted(..., reverse=True)).
RECURSIVE SortedDescending(_)
SortedDescending(S) ==
  IF S = {} THEN <<>>
  ELSE LET m == CHOOSE x \in S : \A y \in S \ {x} : NameLess(y, x)
       IN <<m>> \o SortedDescending(S \ {m})

\* sorted(list(...)): the names of S in ascending order.
RECURSIVE Sorted(_)
Sorted(S) ==
  IF S = {} THEN <<>>
  ELSE LET m == CHOOSE x \in S : \A y \in S \ {x} : NameLess(x, y)
       IN <<m>> \o Sorted(S \ {m})

\* ---------------------------------------------------------- file content
HDR == "xz-header"
FTR == "xz-footer-sha256"
NL == "\n"

\* mem.iterdump() of a database with r rows.
RECURSIVE Inserts(_)
Inserts(r) == IF r = 0 THEN <<>> ELSE Inserts(r - 1) \o <<"INSERT">>

Iterdump(r) == <<"BEGIN TRANSACTION;">> \o Inserts(r) \o <<"COMMIT;">>

\* Mutant: the line is written without its newline.
EncodeNoNewline(line) == <<line>>

\* f"{line}\n".encode("utf8")
Encode(line) == <<line, NL>>

RECURSIVE EncodeAll(_)
EncodeAll(lines) ==
  IF lines = <<>> THEN <<>> ELSE Encode(Head(lines)) \o EncodeAll(Tail(lines))

\* The complete .xz stream of a statement sequence.
XZ(lines) == <<HDR>> \o EncodeAll(lines) \o <<FTR>>

IsComplete(c) == Len(c) >= 2 /\ c[1] = HDR /\ c[Len(c)] = FTR

\* ------------------------------------------------------------------ state
VARIABLES
  now,       \* real time (what arrow.now() reads, without the offset)
  zone,      \* the machine's current UTC offset
  dir,       \* cfg.dst: file name -> content held by the operating system
  ntmp,      \* temporary names handed out so far
  runs,      \* invocations started so far
  faults,    \* failures injected so far
  lastprune, \* class of the last prune that returned, "none" once the directory changed otherwise
  pc,        \* per process: position in backup()
  op,        \* per process: "backup" (run, then prune) or "prune" (prune alone)
  cfg,       \* per process: cfg.freq
  TS,        \* per process: the module-level TS, taken when the process starts
  pre,       \* per process: the directory when the call began
  seen,      \* per process: the directory when prune listed it
  again,     \* per process: this prune directly follows a returned prune of the same class
  dump,      \* per process: all the lines mem.iterdump() yields
  mem,       \* per process: the lines iterdump has not yielded yet
  out,       \* per process: output the LZMA compressor has not emitted yet
  tmp,       \* per process: the NamedTemporaryFile
  exc,       \* per process: the exception in flight, "none" if none
  first,     \* per process: the first exception of the call
  unlinke,   \* per process: the except block logged an unlink failure
  backups,   \* per process: prune's sorted listing
  nb,        \* per process: files prune has unlinked
  busy,      \* per process: times the copy found the source busy past the timeout
  snap,      \* the online copy of line 71, page by page: source, replica, progress
  xd         \* a call of extract_data (convert_to_xml.py): argument, position, result

vars == <<now, zone, dir, ntmp, runs, faults, lastprune, pc, op, cfg, TS, pre, seen, again,
          dump, mem, out, tmp, exc, first, unlinke, backups, nb, busy, snap, xd>>

NoName == [prefix |-> <<0, 0>>, suffix |-> "none"]

NoTmp == [name |-> NoName, buf |-> <<>>, at |-> NoName, synced |-> <<>>]

\* ------------------------------------------------------ initial directory
Profiles == {"empty", "full", "over"}

Count(f, profile) ==
  CASE profile = "empty" -> 0
    [] profile = "full" -> Limit(f)
    [] profile = "over" -> Limit(f) + Extra

\* The i-th oldest backup was taken at instant i; the offset went from
\* +0200 to +0100 after the first one.
OldTS(i) == IF i = 1 THEN Format(1, 2) ELSE Format(i, 1)

OldContent == XZ(Iterdump(0))

\* A file of the directory that is no backup and no temporary file.
Unrelated == [prefix |-> <<0, 0>>, suffix |-> "other"]

OldNames(profile) ==
  UNION {{BackupName(OldTS(i), f) : i \in 1..Count(f, profile)} : f \in Classes}

\* The initial directory: the old backups and, beside them, the unrelated
\* file.
OldDir(profile) ==
  [n \in OldNames(profile) \cup (IF profile = "empty" THEN {} ELSE {Unrelated}) |->
     IF n = Unrelated THEN <<"text">> ELSE OldContent]

Now0 == Limit("hourly") + Extra + 1

\* The state of the backup command before any invocation, in a directory
\* of the given profile.
InitRun(profile) ==
  /\ now = Now0
  /\ zone = 1
  /\ dir = OldDir(profile)
  /\ ntmp = 0
  /\ runs = 0
  /\ faults = 0
  /\ lastprune = "none"
  /\ pc = [p \in Procs |-> "idle"]
  /\ op = [p \in Procs |-> "backup"]
  /\ cfg = [p \in Procs |-> "hourly"]
  /\ TS = [p \in Procs |-> Format(Now0, 1)]
  /\ pre = [p \in Procs |-> <<>>]
  /\ seen = [p \in Procs |-> <<>>]
  /\ again = [p \in Procs |-> FALSE]
  /\ dump = [p \in Procs |-> <<>>]
  /\ mem = [p \in Procs |-> <<>>]
  /\ out = [p \in Procs |-> <<>>]
  /\ tmp = [p \in Procs |-> NoTmp]
  /\ exc = [p \in Procs |-> "none"]
  /\ first = [p \in Procs |-> "none"]
  /\ unlinke = [p \in Procs |-> FALSE]
  /\ backups = [p \in Procs |-> <<>>]
  /\ nb = [p \in Procs |-> 0]
  /\ busy = [p \in Procs |-> 0]

\* The source database: page -> number of the last transaction that wrote it.
Pages == 1..MaxPages

\* No copy has begun; the source holds its initial content.
Snap0 ==
  [src |-> [i \in Pages |-> 0],
   hist |-> <<[i \in Pages |-> 0]>>,
   locked |-> FALSE,
   replica |-> [i \in Pages |-> -1],
   iNext |-> 1,
   cached |-> 1,
   began |-> 0,
   at |-> 0,
   rc |-> "none"]

\* extract_data has not been called.
NoCall == [objs |-> <<>>, i |-> 0, st |-> "none", result |-> "none"]

Init ==
  /\ \E profile \in Profiles : InitRun(profile)
  /\ snap = Snap0
  /\ xd = NoCall

\* ---------------------------------------------------------------- helpers
\* backup_path(cfg)
backup_path(p) == BackupName(TS[p], cfg[p])

\* Mutant: the unlink removes nothing.
RemoveNothing(d, n) == d

\* os.unlink(n), Path.unlink(): the name n is gone.
Remove(d, n) == [m \in DOMAIN d \ {n} |-> d[m]]

\* Mutant: the file is copied to dst and src stays.
RenameDirKeepsSource(d, src, dst) ==
  [m \in DOMAIN d \cup {dst} |-> IF m = dst THEN d[src] ELSE d[m]]

\* os.rename(src, dst): dst now names src's file, replacing what it named.
RenameDir(d, src, dst) ==
  [m \in (DOMAIN d \ {src}) \cup {dst} |-> IF m = dst THEN d[src] ELSE d[m]]

\* Bytes written through a file descriptor reach the file wherever it is
\* linked now; a file with no name left is visible to nobody.
FdWrite(d, at, bytes) ==
  IF at \in DOMAIN d THEN [d EXCEPT ![at] = @ \o bytes] ELSE d

\* The name n is unlinked or replaced: a file that was linked there has no
\* name left.
Detach(t, n) ==
  [q \in Procs |-> IF t[q].at = n THEN [t[q] EXCEPT !.at = NoName] ELSE t[q]]

\* tmp.write(e) on the buffered file object: e is kept in the buffer, or
\* the buffer is flushed and e kept, or both are written through; a flush
\* can fail (disk full), which leaves buffer and file as they were.
TmpWrite(buf, e) ==
  IF e = <<>> THEN {[os |-> <<>>, buf |-> buf, ok |-> TRUE]}
  ELSE {[os |-> <<>>, buf |-> buf \o e, ok |-> TRUE],
        [os |-> buf, buf |-> e, ok |-> TRUE],
        [os |-> buf \o e, buf |-> <<>>, ok |-> TRUE],
        [os |-> <<>>, buf |-> buf, ok |-> FALSE]}

\* Mutant: the failure is swallowed, no exception is in flight.
RaiseSwallowed(p, e) ==
  /\ runs + faults < MaxCost
  /\ faults' = faults + 1
  /\ UNCHANGED <<exc, first>>

\* An operation fails and raises e: e is in flight; the first exception of
\* the call is remembered.
Raise(p, e) ==
  /\ runs + faults < MaxCost
  /\ faults' = faults + 1
  /\ exc' = [exc EXCEPT ![p] = e]
  /\ first' = [first EXCEPT ![p] = IF @ = "none" THEN e ELSE @]

\* Mutant: the surplus is counted one too high.
TooManyOffByOne(listing, f) == Len(listing) - NUM_FREQS[f] + 1

\* prune, line 55
too_many(listing, f) == Len(listing) - NUM_FREQS[f]

\* Mutant: the loop ends after its first turn.
LoopBreaks(p) == TRUE

\* prune, line 57: the loop over backups[0:too_many] has no file left.
LoopDone(p) == nb[p] + 1 = too_many(backups[p], cfg[p])

\* ------------------------------------------------------------ environment
\* Time passes.
Tick ==
  /\ \A q \in Procs : pc[q] = "idle"
  /\ now < Now0 + MaxTicks
  /\ now' = now + 1
  /\ UNCHANGED <<zone, dir, ntmp, runs, faults, lastprune, pc, op, cfg, TS, pre, seen, again,
                 dump, mem, out, tmp, exc, first, unlinke, backups, nb>>
  /\ UNCHANGED busy
  /\ UNCHANGED <<snap, xd>>

\* The machine's UTC offset changes (daylight saving time, travel).
ChangeZone ==
  /\ \A q \in Procs : pc[q] = "idle"
  /\ \E z \in Zones \ {zone} : zone' = z
  /\ UNCHANGED <<now, dir, ntmp, runs, faults, lastprune, pc, op, cfg, TS, pre, seen, again,
                 dump, mem, out, tmp, exc, first, unlinke, backups, nb>>
  /\ UNCHANGED busy
  /\ UNCHANGED <<snap, xd>>

\* ------------------------------------------------------------- invocation
\* A process starts: the module is imported (NOW, TS) and the caller builds
\* cfg and calls backup() (o = "backup") or prune() alone (o = "prune").
Start(p, o, f) ==
  /\ pc[p] = "idle"
  /\ runs < MaxRuns
  /\ runs + faults < MaxCost
  /\ runs' = runs + 1
  /\ TS' = [TS EXCEPT ![p] = Format(now, zone)]
  /\ cfg' = [cfg EXCEPT ![p] = f]
  /\ op' = [op EXCEPT ![p] = o]
  /\ pre' = [pre EXCEPT ![p] = dir]
  /\ seen' = [seen EXCEPT ![p] = <<>>]
  /\ again' = [again EXCEPT ![p] = (o = "prune" /\ lastprune = f)]
  /\ pc' = [pc EXCEPT ![p] = IF o = "backup" THEN "mkdir" ELSE "prune"]
  /\ dump' = [dump EXCEPT ![p] = <<>>]
  /\ mem' = [mem EXCEPT ![p] = <<>>]
  /\ out' = [out EXCEPT ![p] = <<>>]
  /\ tmp' = [tmp EXCEPT ![p] = NoTmp]
  /\ exc' = [exc EXCEPT ![p] = "none"]
  /\ first' = [first EXCEPT ![p] = "none"]
  /\ unlinke' = [unlinke EXCEPT ![p] = FALSE]
  /\ backups' = [backups EXCEPT ![p] = <<>>]
  /\ nb' = [nb EXCEPT ![p] = 0]
  /\ UNCHANGED <<now, zone, dir, ntmp, faults, lastprune>>
  /\ busy' = [busy EXCEPT ![p] = 0]
  /\ UNCHANGED <<snap, xd>>

\* run, line 62-64: the directory exists (exist_ok); dest_path is fixed.
Mkdir(p) ==
  /\ pc[p] = "mkdir"
  /\ pc' = [pc EXCEPT ![p] = "backup"]
  /\ UNCHANGED <<now, zone, dir, ntmp, runs, faults, lastprune, op, cfg, TS, pre, seen, again,
                 dump, mem, out, tmp, exc, first, unlinke, backups, nb>>
  /\ UNCHANGED busy
  /\ UNCHANGED <<snap, xd>>

\* run, line 69-71: the online copy into the in-memory replica. It yields
\* the replica of a database of r rows; or sqlite3 raises (the source cannot
\* be opened or is not a database); or the source is locked by a writer
\* past the timeout: the copy step reports SQLITE_BUSY and Connection.backup
\* sleeps (sleep=0.25) and steps again, for as long as the lock is held.
Backup(p) ==
  /\ pc[p] = "backup"
  /\ \/ /\ \E r \in 0..MaxRows :
             /\ dump' = [dump EXCEPT ![p] = Iterdump(r)]
             /\ mem' = [mem EXCEPT ![p] = Iterdump(r)]
        /\ pc' = [pc EXCEPT ![p] = "tmpfile"]
        /\ UNCHANGED <<exc, first, faults, busy>>
     \/ /\ Raise(p, "sqlite")
        /\ pc' = [pc EXCEPT ![p] = "raised"]
        /\ UNCHANGED <<dump, mem, busy>>
     \/ /\ busy[p] = 0
        /\ runs + faults < MaxCost
        /\ faults' = faults + 1
        /\ busy' = [busy EXCEPT ![p] = @ + 1]
        /\ UNCHANGED <<pc, dump, mem, exc, first>>
  /\ UNCHANGED <<now, zone, dir, ntmp, runs, lastprune, op, cfg, TS, pre, seen, again,
                 out, tmp, unlinke, backups, nb>>
  /\ UNCHANGED <<snap, xd>>

\* run, line 73-75: NamedTemporaryFile creates an empty file under a fresh
\* name in the destination directory; LZMAFile wraps it (the compressor
\* holds the stream header). Creating the file can fail.
NamedTemporaryFile(p) ==
  /\ pc[p] = "tmpfile"
  /\ \/ /\ LET name == TempName(ntmp + 1) IN
             /\ dir' = [m \in DOMAIN dir \cup {name} |-> IF m = name THEN <<>> ELSE dir[m]]
             /\ tmp' = [tmp EXCEPT ![p] = [name |-> name, buf |-> <<>>, at |-> name,
                                           synced |-> <<>>]]
        /\ ntmp' = ntmp + 1
        /\ out' = [out EXCEPT ![p] = <<HDR>>]
        /\ pc' = [pc EXCEPT ![p] = "write"]
        /\ UNCHANGED <<exc, first, faults>>
     \/ /\ Raise(p, "tmpfile")
        /\ pc' = [pc EXCEPT ![p] = "raised"]
        /\ UNCHANGED <<dir, tmp, ntmp, out>>
  /\ UNCHANGED <<now, zone, runs, lastprune, op, cfg, TS, pre, seen, again,
                 dump, mem, unlinke, backups, nb>>
  /\ UNCHANGED busy
  /\ UNCHANGED <<snap, xd>>

\* run, line 77-78: one turn of the loop. The compressor takes the encoded
\* line and emits nothing or all it holds; what it emits goes to tmp.write.
\* iterdump can raise instead of yielding, and tmp.write can raise (what
\* the compressor emitted is then lost).
WriteLine(p) ==
  /\ pc[p] = "write"
  /\ mem[p] # <<>>
  /\ \/ /\ LET held == out[p] \o Encode(Head(mem[p])) IN
           \E e \in {<<>>, held} :
           \E w \in TmpWrite(tmp[p].buf, e) :
             IF w.ok
             THEN /\ out' = [out EXCEPT ![p] = IF e = <<>> THEN held ELSE <<>>]
                  /\ mem' = [mem EXCEPT ![p] = Tail(@)]
                  /\ tmp' = [tmp EXCEPT ![p].buf = w.buf]
                  /\ dir' = FdWrite(dir, tmp[p].at, w.os)
                  /\ pc' = pc
                  /\ UNCHANGED <<exc, first, faults>>
             ELSE /\ Raise(p, "write")
                  /\ pc' = [pc EXCEPT ![p] = "outexit"]
                  /\ mem' = [mem EXCEPT ![p] = Tail(@)]
                  /\ out' = [out EXCEPT ![p] = <<>>]
                  /\ UNCHANGED <<tmp, dir>>
     \/ /\ Raise(p, "serialization")
        /\ pc' = [pc EXCEPT ![p] = "outexit"]
        /\ UNCHANGED <<mem, out, tmp, dir>>
  /\ UNCHANGED <<now, zone, ntmp, runs, lastprune, op, cfg, TS, pre, seen, again,
                 dump, unlinke, backups, nb>>
  /\ UNCHANGED busy
  /\ UNCHANGED <<snap, xd>>

\* run, line 79: out.flush(). LZMAFile defines no flush; the inherited
\* io.IOBase.flush does nothing.
Flush(p) ==
  /\ pc[p] = "write"
  /\ mem[p] = <<>>
  /\ pc' = [pc EXCEPT ![p] = "outclose"]
  /\ UNCHANGED <<now, zone, dir, ntmp, runs, faults, lastprune, op, cfg, TS, pre, seen, again,
                 dump, mem, out, tmp, exc, first, unlinke, backups, nb>>
  /\ UNCHANGED busy
  /\ UNCHANGED <<snap, xd>>

\* run, line 75 (leaving the with block): LZMAFile.close() writes what the
\* compressor still holds and the stream footer to tmp; tmp stays open.
\* It runs on the normal path and when an exception leaves the block.
CloseOut(p) ==
  /\ pc[p] \in {"outclose", "outexit"}
  /\ \E w \in TmpWrite(tmp[p].buf, out[p] \o <<FTR>>) :
       IF w.ok
       THEN /\ out' = [out EXCEPT ![p] = <<>>]
            /\ tmp' = [tmp EXCEPT ![p].buf = w.buf]
            /\ dir' = FdWrite(dir, tmp[p].at, w.os)
            /\ pc' = [pc EXCEPT ![p] = IF pc[p] = "outclose" THEN "fsync" ELSE "except"]
            /\ UNCHANGED <<exc, first, faults>>
       ELSE /\ Raise(p, "outclose")
            /\ out' = [out EXCEPT ![p] = <<>>]
            /\ pc' = [pc EXCEPT ![p] = "except"]
            /\ UNCHANGED <<tmp, dir>>
  /\ UNCHANGED <<now, zone, ntmp, runs, lastprune, op, cfg, TS, pre, seen, again,
                 dump, mem, unlinke, backups, nb>>
  /\ UNCHANGED busy
  /\ UNCHANGED <<snap, xd>>

\* run, line 80: os.fsync(tmp.fileno()) makes durable what the operating
\* system holds for the file. The file object's buffer is not written.
Fsync(p) ==
  /\ pc[p] = "fsync"
  /\ \/ /\ tmp' = [tmp EXCEPT ![p].synced = dir[tmp[p].at]]
        /\ pc' = [pc EXCEPT ![p] = "rename"]
        /\ UNCHANGED <<exc, first, faults>>
     \/ /\ Raise(p, "fsync")
        /\ pc' = [pc EXCEPT ![p] = "except"]
        /\ UNCHANGED tmp
  /\ UNCHANGED <<now, zone, dir, ntmp, runs, lastprune, op, cfg, TS, pre, seen, again,
                 dump, mem, out, unlinke, backups, nb>>
  /\ UNCHANGED busy
  /\ UNCHANGED <<snap, xd>>

\* run, line 81-82: os.rename(tmp.name, dest_path).
Rename(p) ==
  /\ pc[p] = "rename"
  /\ \/ /\ dir' = RenameDir(dir, tmp[p].name, backup_path(p))
        /\ tmp' = [Detach(tmp, backup_path(p)) EXCEPT ![p].at = backup_path(p)]
        /\ lastprune' = "none"
        /\ pc' = [pc EXCEPT ![p] = "tmpclose"]
        /\ UNCHANGED <<exc, first, faults>>
     \/ /\ Raise(p, "rename")
        /\ pc' = [pc EXCEPT ![p] = "except"]
        /\ UNCHANGED <<dir, tmp, lastprune>>
  /\ UNCHANGED <<now, zone, ntmp, runs, op, cfg, TS, pre, seen, again,
                 dump, mem, out, unlinke, backups, nb>>
  /\ UNCHANGED busy
  /\ UNCHANGED <<snap, xd>>

\* Mutant: the except block cleans up and does not raise again.
ExceptSwallows(p) ==
  /\ pc[p] = "except"
  /\ dir' = Remove(dir, tmp[p].name)
  /\ tmp' = [tmp EXCEPT ![p].at = NoName]
  /\ exc' = [exc EXCEPT ![p] = "none"]
  /\ pc' = [pc EXCEPT ![p] = "tmpclose"]
  /\ UNCHANGED <<now, zone, ntmp, runs, faults, lastprune, op, cfg, TS, pre, seen, again,
                 dump, mem, out, first, unlinke, backups, nb>>
  /\ UNCHANGED busy
  /\ UNCHANGED <<snap, xd>>

\* run, line 83-89: the except block. os.unlink(tmp.name) succeeds, or it
\* fails and the failure is logged; then e is raised again.
Except(p) ==
  /\ pc[p] = "except"
  /\ \/ /\ dir' = Remove(dir, tmp[p].name)
        /\ tmp' = [tmp EXCEPT ![p].at = NoName]
        /\ UNCHANGED <<unlinke, faults>>
     \/ /\ runs + faults < MaxCost
        /\ faults' = faults + 1
        /\ unlinke' = [unlinke EXCEPT ![p] = TRUE]
        /\ UNCHANGED <<dir, tmp>>
  /\ pc' = [pc EXCEPT ![p] = "tmpexit"]
  /\ UNCHANGED <<now, zone, ntmp, runs, lastprune, op, cfg, TS, pre, seen, again,
                 dump, mem, out, exc, first, backups, nb>>
  /\ UNCHANGED busy
  /\ UNCHANGED <<snap, xd>>

\* run, line 73 (leaving the with block): tmp.close() writes the buffer to
\* the file descriptor, on the normal path and with an exception in flight.
\* The write can fail: the buffered bytes are lost with the closed file and
\* the failure is the exception that leaves run. Either way the descriptor
\* is closed; only the name is remembered.
CloseTmp(p) ==
  /\ pc[p] \in {"tmpclose", "tmpexit"}
  /\ \/ /\ dir' = FdWrite(dir, tmp[p].at, tmp[p].buf)
        /\ tmp' = [tmp EXCEPT ![p] = [NoTmp EXCEPT !.name = tmp[p].name]]
        /\ pc' = [pc EXCEPT ![p] = IF pc[p] = "tmpclose" THEN "prune" ELSE "raised"]
        /\ UNCHANGED <<exc, first, faults>>
     \/ /\ tmp[p].buf # <<>>
        /\ Raise(p, "close")
        /\ tmp' = [tmp EXCEPT ![p] = [NoTmp EXCEPT !.name = tmp[p].name]]
        /\ pc' = [pc EXCEPT ![p] = "raised"]
        /\ UNCHANGED dir
  /\ UNCHANGED <<now, zone, ntmp, runs, lastprune, op, cfg, TS, pre, seen, again,
                 dump, mem, out, unlinke, backups, nb>>
  /\ UNCHANGED busy
  /\ UNCHANGED <<snap, xd>>

\* prune, line 54-56: list, sort, count the surplus.
Prune(p) ==
  /\ pc[p] = "prune"
  /\ LET listing == Sorted(Glob(dir, cfg[p])) IN
       /\ backups' = [backups EXCEPT ![p] = listing]
       /\ pc' = [pc EXCEPT ![p] = IF too_many(listing, cfg[p]) > 0 THEN "unlink" ELSE "done"]
       /\ lastprune' = IF too_many(listing, cfg[p]) > 0 THEN lastprune ELSE cfg[p]
  /\ nb' = [nb EXCEPT ![p] = 0]
  /\ seen' = [seen EXCEPT ![p] = dir]
  /\ UNCHANGED <<now, zone, dir, ntmp, runs, faults, op, cfg, TS, pre, again,
                 dump, mem, out, tmp, exc, first, unlinke>>
  /\ UNCHANGED busy
  /\ UNCHANGED <<snap, xd>>

\* Mutant: each turn of the loop removes the file that is the oldest of the
\* class at that moment, not the next one of the listing.
UnlinkOldestNow(p) ==
  /\ pc[p] = "unlink"
  /\ Glob(dir, cfg[p]) # {}
  /\ LET b == Sorted(Glob(dir, cfg[p]))[1] IN
       /\ dir' = Remove(dir, b)
       /\ tmp' = Detach(tmp, b)
       /\ nb' = [nb EXCEPT ![p] = @ + 1]
       /\ pc' = [pc EXCEPT ![p] = IF LoopDone(p) THEN "done" ELSE "unlink"]
       /\ lastprune' = IF LoopDone(p) THEN cfg[p] ELSE "none"
  /\ UNCHANGED <<now, zone, ntmp, runs, faults, op, cfg, TS, pre, seen, again,
                 dump, mem, out, exc, first, unlinke, backups, busy, snap, xd>>

\* prune, line 57-59: one turn of the loop over backups[0:too_many].
\* b.unlink() raises when the file cannot be removed, and when it is gone
\* (FileNotFoundError: another process has removed it since the listing).
Unlink(p) ==
  /\ pc[p] = "unlink"
  /\ LET b == backups[p][nb[p] + 1] IN
       \/ /\ b \in DOMAIN dir
          /\ dir' = Remove(dir, b)
          /\ tmp' = Detach(tmp, b)
          /\ nb' = [nb EXCEPT ![p] = @ + 1]
          /\ pc' = [pc EXCEPT ![p] = IF LoopDone(p) THEN "done" ELSE "unlink"]
          /\ lastprune' = IF LoopDone(p) THEN cfg[p] ELSE "none"
          /\ UNCHANGED <<exc, first, faults>>
       \/ /\ Raise(p, "unlink")
          /\ pc' = [pc EXCEPT ![p] = "raised"]
          /\ lastprune' = "none"
          /\ UNCHANGED <<dir, tmp, nb>>
       \/ /\ b \notin DOMAIN dir
          /\ exc' = [exc EXCEPT ![p] = "unlink"]
          /\ first' = [first EXCEPT ![p] = "unlink"]
          /\ pc' = [pc EXCEPT ![p] = "raised"]
          /\ lastprune' = "none"
          /\ UNCHANGED <<dir, tmp, nb, faults>>
  /\ UNCHANGED <<now, zone, ntmp, runs, op, cfg, TS, pre, seen, again,
                 dump, mem, out, unlinke, backups>>
  /\ UNCHANGED busy
  /\ UNCHANGED <<snap, xd>>

\* The call has returned ("done", line 110) or raised; the process ends.
Exit(p) ==
  /\ pc[p] \in {"done", "raised"}
  /\ pc' = [pc EXCEPT ![p] = "idle"]
  /\ op' = [op EXCEPT ![p] = "backup"]
  /\ cfg' = [cfg EXCEPT ![p] = "hourly"]
  /\ TS' = [TS EXCEPT ![p] = Format(Now0, 1)]
  /\ pre' = [pre EXCEPT ![p] = <<>>]
  /\ seen' = [seen EXCEPT ![p] = <<>>]
  /\ again' = [again EXCEPT ![p] = FALSE]
  /\ dump' = [dump EXCEPT ![p] = <<>>]
  /\ mem' = [mem EXCEPT ![p] = <<>>]
  /\ out' = [out EXCEPT ![p] = <<>>]
  /\ tmp' = [tmp EXCEPT ![p] = NoTmp]
  /\ exc' = [exc EXCEPT ![p] = "none"]
  /\ first' = [first EXCEPT ![p] = "none"]
  /\ unlinke' = [unlinke EXCEPT ![p] = FALSE]
  /\ backups' = [backups EXCEPT ![p] = <<>>]
  /\ nb' = [nb EXCEPT ![p] = 0]
  /\ UNCHANGED <<now, zone, dir, ntmp, runs, faults, lastprune>>
  /\ busy' = [busy EXCEPT ![p] = 0]
  /\ UNCHANGED <<snap, xd>>

Step(p) ==
  \/ Mkdir(p)
  \/ Backup(p)
  \/ NamedTemporaryFile(p)
  \/ WriteLine(p)
  \/ Flush(p)
  \/ CloseOut(p)
  \/ Fsync(p)
  \/ Rename(p)
  \/ Except(p)
  \/ CloseTmp(p)
  \/ Prune(p)
  \/ Unlink(p)
  \/ Exit(p)

\* Invocations one after the other: a process starts when no other runs.
Next ==
  \/ Tick
  \/ ChangeZone
  \/ \E o \in {"backup", "prune"}, f \in Classes :
       /\ \A q \in Procs : pc[q] = "idle"
       /\ Start(CHOOSE p \in Procs : \A q \in Procs : p <= q, o, f)
  \/ \E p \in Procs : Step(p)

Spec == Init /\ [][Next]_vars

\* ------------------------------------------- several calls in one process
\* Time passes while a process that has imported the module sits between
\* two calls.
TickBetweenCalls ==
  /\ \E q \in Procs : pc[q] \in {"done", "raised"}
  /\ \A q \in Procs : pc[q] \in {"idle", "done", "raised"}
  /\ now < Now0 + MaxTicks
  /\ now' = now + 1
  /\ UNCHANGED <<zone, dir, ntmp, runs, faults, lastprune, pc, op, cfg, TS, pre, seen, again,
                 dump, mem, out, tmp, exc, first, unlinke, backups, nb>>
  /\ UNCHANGED busy
  /\ UNCHANGED <<snap, xd>>

\* The caller of a call that has ended calls backup() or prune() again in
\* the same process: the module is not imported again, NOW and TS (line
\* 46-47) keep the values of the import.
CallAgain(p, o, f) ==
  /\ pc[p] \in {"done", "raised"}
  /\ \A q \in Procs \ {p} : pc[q] = "idle"
  /\ runs < MaxRuns
  /\ runs + faults < MaxCost
  /\ runs' = runs + 1
  /\ cfg' = [cfg EXCEPT ![p] = f]
  /\ op' = [op EXCEPT ![p] = o]
  /\ pre' = [pre EXCEPT ![p] = dir]
  /\ seen' = [seen EXCEPT ![p] = <<>>]
  /\ again' = [again EXCEPT ![p] = (o = "prune" /\ lastprune = f)]
  /\ pc' = [pc EXCEPT ![p] = IF o = "backup" THEN "mkdir" ELSE "prune"]
  /\ dump' = [dump EXCEPT ![p] = <<>>]
  /\ mem' = [mem EXCEPT ![p] = <<>>]
  /\ out' = [out EXCEPT ![p] = <<>>]
  /\ tmp' = [tmp EXCEPT ![p] = NoTmp]
  /\ exc' = [exc EXCEPT ![p] = "none"]
  /\ first' = [first EXCEPT ![p] = "none"]
  /\ unlinke' = [unlinke EXCEPT ![p] = FALSE]
  /\ backups' = [backups EXCEPT ![p] = <<>>]
  /\ nb' = [nb EXCEPT ![p] = 0]
  /\ UNCHANGED <<now, zone, dir, ntmp, faults, lastprune, TS>>
  /\ busy' = [busy EXCEPT ![p] = 0]
  /\ UNCHANGED <<snap, xd>>

NextCaller ==
  \/ Next
  \/ TickBetweenCalls
  \/ \E p \in Procs, o \in {"backup", "prune"}, f \in Classes : CallAgain(p, o, f)

\* The invocations of Spec, and processes that call more than once.
SpecCaller == Init /\ [][NextCaller]_vars

\* -------------------------------------------------- concurrent invocations
\* Two invocations for the same class (two launchd jobs, or a job and a
\* manual call) run at the same time; time passes while they do. A process
\* is started while the other one is anywhere in prune, or, for a call of
\* prune alone, anywhere in run: the two are never both inside run.
ConcClass == "hourly"

\* The positions of a call inside run.
RunStages == {"mkdir", "backup", "tmpfile", "write", "outclose", "outexit", "fsync",
              "rename", "except", "tmpclose", "tmpexit"}

TickConc ==
  /\ runs < MaxRuns
  /\ now < Now0 + MaxTicks
  /\ now' = now + 1
  /\ UNCHANGED <<zone, dir, ntmp, runs, faults, lastprune, pc, op, cfg, TS, pre, seen, again,
                 dump, mem, out, tmp, exc, first, unlinke, backups, nb, busy, snap, xd>>

NextConc ==
  \/ TickConc
  \/ \E p \in Procs, o \in {"backup", "prune"} :
       /\ o = "backup" => \A q \in Procs \ {p} : pc[q] \notin RunStages
       /\ Start(p, o, ConcClass)
  \/ \E p \in Procs : Step(p)

SpecConc == Init /\ [][NextConc]_vars

\* ------------------------------------------- the online copy, page by page
\* back.backup(mem, pages=16, progress=progress), line 71: Connection.backup
\* calls sqlite3_backup_step(16) until it reports SQLITE_DONE. A step holds
\* a read lock on the source while it copies its pages and gives it up when
\* it returns, so another connection can commit between two steps. progress
\* only logs.
PAGES == 16

\* The variables of the backup command.
runvars == <<now, zone, dir, ntmp, runs, faults, lastprune, pc, op, cfg, TS, pre, seen, again,
             dump, mem, out, tmp, exc, first, unlinke, backups, nb, busy>>

\* The pages one transaction of the other connection writes.
WriteSets == {{1}, {MaxPages}, {1, MaxPages}}

\* Another connection starts a write transaction and takes the lock.
WriteBegin ==
  /\ ~snap.locked
  /\ Len(snap.hist) <= MaxWrites
  /\ snap' = [snap EXCEPT !.locked = TRUE]
  /\ UNCHANGED <<runvars, xd>>

\* It commits: the pages of W carry the number of this transaction.
WriteCommit(W) ==
  /\ snap.locked
  /\ LET k == Len(snap.hist)
         new == [i \in Pages |-> IF i \in W THEN k ELSE snap.src[i]]
     IN snap' = [snap EXCEPT !.src = new, !.hist = Append(@, new), !.locked = FALSE]
  /\ UNCHANGED <<runvars, xd>>

\* Mutant: a change of the source between two steps goes unnoticed.
NeverRestart == FALSE

\* The step finds that the source has changed since the step before (the
\* pager sees another change counter): the copy starts over at page 1.
Restart == snap.cached # Len(snap.hist)

Min(a, b) == IF a <= b THEN a ELSE b

\* One turn of the loop in Connection.backup: sqlite3_backup_step(16).
\* A locked source gives SQLITE_BUSY (sleep, then step again); otherwise
\* the next 16 pages are copied, from page 1 if the copy starts over.
BackupStep ==
  /\ snap.rc # "DONE"
  /\ IF snap.locked
     THEN snap' = [snap EXCEPT !.rc = "BUSY"]
     ELSE LET from == IF Restart THEN 1 ELSE snap.iNext
              to == Min(from + PAGES - 1, MaxPages)
              last == to = MaxPages
          IN snap' = [snap EXCEPT
                        !.replica = [i \in Pages |-> IF i \in from..to THEN snap.src[i] ELSE @[i]],
                        !.iNext = to + 1,
                        !.cached = Len(snap.hist),
                        !.began = IF @ = 0 THEN Len(snap.hist) ELSE @,
                        !.at = IF last THEN Len(snap.hist) ELSE 0,
                        !.rc = IF last THEN "DONE" ELSE "OK"]
  /\ UNCHANGED <<runvars, xd>>

InitSnapshot ==
  /\ InitRun("empty")
  /\ snap = Snap0
  /\ xd = NoCall

NextSnapshot ==
  \/ BackupStep
  \/ WriteBegin
  \/ \E W \in WriteSets : WriteCommit(W)

\* One copy of the source while another connection writes to it.
SpecSnapshot == InitSnapshot /\ [][NextSnapshot]_vars

\* ------------------------------------------- convert_to_xml.extract_data
\* The elements of a '$objects' list: strings (the marker among them), a
\* sized object that is no string (a dict of three keys) and a number,
\* which has no len().
Marker == [kind |-> "str", val |-> "AppleSDGothicNeo", len |-> 16]

Elems ==
  {Marker,
   [kind |-> "str", val |-> "a", len |-> 1],
   [kind |-> "str", val |-> "bb", len |-> 2],
   [kind |-> "dict", val |-> "{3 keys}", len |-> 3],
   [kind |-> "int", val |-> "7", len |-> -1]}

Lists == UNION {[1..n -> Elems] : n \in 0..MaxLen}

\* Python's None, where an index is expected and where an element is.
NoIndex == -1

None == [kind |-> "NoneType", val |-> "None", len |-> -1]

\* An exception leaving the function.
Error(name) == [kind |-> "exception", val |-> name, len |-> -1]

\* find_data_idx(rec), the loop from index i on (indices count from 0, as
\* in the source: rec[i] is the (i+1)-th element).
RECURSIVE FindFrom(_, _)
FindFrom(rec, i) ==
  IF i >= Len(rec) THEN NoIndex
  ELSE IF rec[i + 1] = Marker THEN i + 1
  ELSE FindFrom(rec, i + 1)

find_data_idx(rec) == FindFrom(rec, 0)

\* extract_data, line 24-25 and 36-37: the index after the marker, or
\* None is returned.
extract_data ==
  /\ xd.st = "call"
  /\ LET i == find_data_idx(xd.objs) IN
       IF i # NoIndex
       THEN xd' = [xd EXCEPT !.i = i, !.st = "loop"]
       ELSE xd' = [xd EXCEPT !.st = "returned", !.result = None]
  /\ UNCHANGED <<runvars, snap>>

\* extract_data, line 26-34: one turn of the while loop. objs[i+1] is read
\* with no test of i+1 (IndexError past the end), and len() of it is taken
\* whatever it is (TypeError for a number). When the loop ends the function
\* falls off its end and returns None.
extract_data_while ==
  /\ xd.st = "loop"
  /\ LET objs == xd.objs
         i == xd.i
     IN IF ~(i < Len(objs))
        THEN xd' = [xd EXCEPT !.st = "returned", !.result = None]
        ELSE IF objs[i + 1].kind # "str"
        THEN xd' = [xd EXCEPT !.i = i + 1]
        ELSE IF ~(i + 1 < Len(objs))
        THEN xd' = [xd EXCEPT !.st = "raised", !.result = Error("IndexError")]
        ELSE IF objs[i + 2].kind = "int"
        THEN xd' = [xd EXCEPT !.st = "raised", !.result = Error("TypeError")]
        ELSE IF objs[i + 1].len >= objs[i + 2].len
        THEN xd' = [xd EXCEPT !.st = "returned", !.result = objs[i + 1]]
        ELSE xd' = [xd EXCEPT !.st = "returned", !.result = objs[i + 2]]
  /\ UNCHANGED <<runvars, snap>>

InitExtract ==
  /\ InitRun("empty")
  /\ snap = Snap0
  /\ \E l \in Lists : xd = [objs |-> l, i |-> 0, st |-> "call", result |-> None]

NextExtract == extract_data \/ extract_data_while

\* extract_data called with every list of at most MaxLen elements.
SpecExtract == InitExtract /\ [][NextExtract]_vars

\* ================================================================= claims
\* run has returned to backup() without raising.
RunReturned(p) == op[p] = "backup" /\ pc[p] = "prune"

\* run has raised (an exception of prune has kind "unlink").
RunRaised(p) == pc[p] = "raised" /\ exc[p] # "unlink"

\* prune has listed the directory in this call.
Pruning(p) == pc[p] \in {"unlink", "done"} \/ (pc[p] = "raised" /\ exc[p] = "unlink")

Max(a, b) == IF a >= b THEN a ELSE b

\* The files of prune's class that were listed and are gone.
Deleted(p) == Glob(seen[p], cfg[p]) \ DOMAIN dir

\* C1: whenever the final path names the file a run has renamed onto it,
\* that file holds the run's complete compressed output, footer included.
C1_DestinationComplete ==
  \A p \in Procs :
    (tmp[p].at = backup_path(p) /\ backup_path(p) \in DOMAIN dir)
      => dir[backup_path(p)] = XZ(dump[p])

\* C2: when run returns, the names that were not in the directory before
\* the call are exactly the one name <TS>_<freq>.sql.xz, and the call's
\* temporary file is gone (stated for a directory that held only complete
\* backup files before the call).
C2_ExactlyOneNewFile ==
  \A p \in Procs :
    (RunReturned(p) /\ \A n \in DOMAIN pre[p] : IsComplete(pre[p][n])) =>
      /\ DOMAIN dir \ DOMAIN pre[p] = {backup_path(p)}
      /\ tmp[p].name \notin DOMAIN dir

\* C2 (amended): when run returns, the directory holds <TS>_<freq>.sql.xz
\* with the run's output and not the call's temporary file, no file that
\* was there has gone or changed apart from that name, and that name is the
\* only new one; it is new unless a file of that name was there already.
C2_OneFileNewOrReplaced ==
  \A p \in Procs :
    RunReturned(p) =>
      /\ backup_path(p) \in DOMAIN dir
      /\ dir[backup_path(p)] = XZ(dump[p])
      /\ tmp[p].name \notin DOMAIN dir
      /\ DOMAIN dir = DOMAIN pre[p] \cup {backup_path(p)}
      /\ \A n \in DOMAIN pre[p] \ {backup_path(p)} : dir[n] = pre[p][n]
      /\ (backup_path(p) \notin DOMAIN pre[p]
            => DOMAIN dir \ DOMAIN pre[p] = {backup_path(p)})

C2_Witness ==
  \E p \in Procs :
    /\ RunReturned(p)
    /\ backup_path(p) \notin DOMAIN pre[p]
    /\ DOMAIN pre[p] # {}

\* C3: when run has raised, the directory is what it was before the call
\* (stated for the calls whose cleanup unlink, if any, did not fail).
C3_FailureLeavesDirectory ==
  \A p \in Procs : (RunRaised(p) /\ ~unlinke[p]) => dir = pre[p]

\* C4: prune never removes more than max(0, N - L) of the N files of its
\* class it listed; when it returns it has removed none if N <= L, and
\* exactly N - L if N > L, each of them smaller in name than every file of
\* the class it kept.
C4_PruneRemovesSurplus ==
  \A p \in Procs :
    Pruning(p) =>
      LET N == Cardinality(Glob(seen[p], cfg[p]))
          L == NUM_FREQS[cfg[p]]
      IN /\ Cardinality(Deleted(p)) <= Max(0, N - L)
         /\ pc[p] = "done" =>
              /\ Cardinality(Deleted(p)) = Max(0, N - L)
              /\ \A d \in Deleted(p) :
                   \A k \in Glob(seen[p], cfg[p]) \ Deleted(p) : NameLess(d, k)

\* 26 hourly files, limit 24: prune has returned and the 2 oldest are gone.
C4_Witness ==
  \E p \in Procs :
    /\ pc[p] = "done"
    /\ cfg[p] = "hourly"
    /\ Cardinality(Glob(seen[p], cfg[p])) = 26
    /\ Cardinality(Deleted(p)) = 2
    /\ Cardinality(Glob(dir, "hourly")) = 24

\* C5: when run has ended after creating the temporary file, no file has
\* the temporary name.
C5_TempAlwaysGone ==
  \A p \in Procs :
    ((RunReturned(p) \/ RunRaised(p)) /\ tmp[p].name # NoName)
      => tmp[p].name \notin DOMAIN dir

\* C5 (amended): when run has ended after creating the temporary file, no
\* file has the temporary name, unless the unlink of the except block
\* failed (and was logged).
C5_TempGoneUnlessUnlinkFailed ==
  \A p \in Procs :
    ((RunReturned(p) \/ RunRaised(p)) /\ tmp[p].name # NoName)
      => (tmp[p].name \notin DOMAIN dir \/ (RunRaised(p) /\ unlinke[p]))

C5_Witness ==
  \E p \in Procs :
    /\ RunRaised(p)
    /\ tmp[p].name # NoName
    /\ ~unlinke[p]
    /\ tmp[p].name \notin DOMAIN dir

\* C6: the exception that leaves run is the first one raised in the call.
C6_OriginalErrorRaised ==
  \A p \in Procs : RunRaised(p) => exc[p] = first[p]

\* C7: when fsync has returned and rename is next, the compressor and the
\* file object hold no byte back and what fsync made durable is the
\* complete compressed output.
C7_SyncedBeforeRename ==
  \A p \in Procs :
    pc[p] = "rename" =>
      /\ out[p] = <<>>
      /\ tmp[p].buf = <<>>
      /\ tmp[p].synced = XZ(dump[p])

\* A published backup file: a backup name no running call has its
\* temporary file linked at.
Published(n) == n.suffix \in FREQS /\ \A q \in Procs : tmp[q].at # n

\* prune's next step unlinks n, a file of a class holding more than its limit.
PruneRemoves(n) ==
  \E p \in Procs :
    /\ pc[p] = "unlink"
    /\ n = backups[p][nb[p] + 1]
    /\ n \notin DOMAIN dir'
    /\ Cardinality(Glob(dir, n.suffix)) > NUM_FREQS[n.suffix]

\* C8: a published backup file goes or changes only in a step of prune
\* that unlinks it while its class holds more files than the limit (stated
\* for the published files that are complete).
C8_OnlyPruneRemoves ==
  [][\A n \in DOMAIN dir :
       (Published(n) /\ IsComplete(dir[n]) /\ (n \notin DOMAIN dir' \/ dir'[n] # dir[n])) => PruneRemoves(n)]_vars

\* C8 (amended): a published backup file goes only in a step of prune that
\* unlinks it while its class holds more files than the limit, and changes
\* only when a run renames its temporary file onto that very name.
C8_OnlyPruneRemovesOrSameNameReplaces ==
  [][\A n \in DOMAIN dir :
       (Published(n) /\ (n \notin DOMAIN dir' \/ dir'[n] # dir[n]))
         => \/ PruneRemoves(n)
            \/ \E p \in Procs :
                 /\ pc[p] = "rename"
                 /\ n = backup_path(p)
                 /\ n \in DOMAIN dir'
                 /\ dir'[n] = dir[tmp[p].name]]_vars

\* A prune has removed surplus files and is running or has ended.
C8_Witness ==
  \E p \in Procs : Pruning(p) /\ nb[p] > 0 /\ Glob(dir, cfg[p]) # {}

\* C9: a prune that directly follows a returned prune of the same class,
\* with no file published in between, returns having removed nothing and
\* with the directory as it found it.
C9_PruneIdempotent ==
  \A p \in Procs :
    (again[p] /\ pc[p] \in {"unlink", "done", "raised"})
      => (pc[p] = "done" /\ nb[p] = 0 /\ dir = pre[p])

\* The first prune (no run before it) removed the surplus, the second one
\* has returned.
C9_Witness ==
  \E p \in Procs :
    /\ again[p]
    /\ pc[p] = "done"
    /\ Cardinality(Glob(dir, cfg[p])) = NUM_FREQS[cfg[p]]
    /\ ntmp = 0

\* C10: a step of prune in which unlink fails raises the failure, leaves
\* the files already unlinked gone and the rest of the listing in place,
\* and leaves the file the preceding run published present and complete.
C10_PruneFailurePropagates ==
  [][\A p \in Procs :
       (pc[p] = "unlink" /\ faults' # faults) =>
         /\ pc'[p] = "raised"
         /\ exc'[p] = "unlink"
         /\ \A i \in 1..nb[p] : backups[p][i] \notin DOMAIN dir'
         /\ \A i \in (nb[p] + 1)..Len(backups[p]) :
              /\ backups[p][i] \in DOMAIN dir'
              /\ dir'[backups[p][i]] = seen[p][backups[p][i]]
         /\ op[p] = "backup" =>
              /\ backup_path(p) \in DOMAIN dir'
              /\ dir'[backup_path(p)] = XZ(dump[p])]_vars

\* prune failed after unlinking a file, after a run that published.
C10_Witness ==
  \E p \in Procs :
    /\ pc[p] = "raised"
    /\ exc[p] = "unlink"
    /\ op[p] = "backup"
    /\ nb[p] > 0
    /\ too_many(backups[p], cfg[p]) > nb[p]

\* The order of the positions of one invocation: snapshot ("backup"), then
\* serialize and compress ("tmpfile", "write", closing the compressor), then
\* publish ("fsync", "rename"), then prune.
Stage(l) ==
  CASE l = "idle" -> 0
    [] l = "mkdir" -> 1
    [] l = "backup" -> 2
    [] l = "tmpfile" -> 3
    [] l = "write" -> 4
    [] l \in {"outclose", "outexit"} -> 5
    [] l = "fsync" -> 6
    [] l = "rename" -> 7
    [] l \in {"tmpclose", "except"} -> 8
    [] l = "tmpexit" -> 9
    [] l = "prune" -> 10
    [] l = "unlink" -> 11
    [] l \in {"done", "raised"} -> 12

\* The positions of a call in which an exception is on its way out.
FailPath == {"outexit", "except", "tmpexit", "raised"}

C12_BusyRaises ==
  \A p \in Procs :
    busy[p] > 0 =>
      /\ pc[p] = "raised"
      /\ exc[p] # "none"
      /\ dir = pre[p]
      /\ tmp[p] = NoTmp

\* C13: the timestamp a run call names its file by is the time of that
\* call (no time passes during a call here): computed in the call, its own.
C13_TimestampOfTheCall ==
  \A p \in Procs : pc[p] \in RunStages => TS[p] = Format(now, zone)

\* What xz -d yields for content c: the bytes between header and footer of
\* a complete stream, an error for anything else.
Decompress(c) ==
  IF IsComplete(c) THEN SubSeq(c, 2, Len(c) - 1) ELSE <<"LZMAError">>

\* C14: when run has returned, decompressing the file at the final path
\* yields the statements iterdump yielded, each once and in order, each
\* followed by one newline, and nothing else.
C14_RoundTrip ==
  \A p \in Procs :
    RunReturned(p) =>
      /\ backup_path(p) \in DOMAIN dir
      /\ LET d == Decompress(dir[backup_path(p)]) IN
           /\ Len(d) = 2 * Len(dump[p])
           /\ \A i \in 1..Len(dump[p]) : d[2 * i - 1] = dump[p][i] /\ d[2 * i] = NL

\* A run of a database with a row has returned.
C14_Witness ==
  \E p \in Procs :
    /\ RunReturned(p)
    /\ Len(dump[p]) = MaxRows + 2
    /\ dump[p][2] = "INSERT"

\* C15: when the copy is complete the replica is the source's content at
\* the moment the copy began: one point in time, and no write made after
\* the copy began shows in it.
C15_SnapshotAtBegin ==
  snap.rc = "DONE" => snap.replica = snap.hist[snap.began]

\* C15 (amended): when the copy is complete the replica is the source's
\* content at one point in time, the moment the copy completed, which is
\* not before the copy began: every transaction committed until then is in
\* it as a whole, none committed later is.
C15_SnapshotAtCompletion ==
  snap.rc = "DONE" =>
    /\ snap.began >= 1
    /\ snap.at >= snap.began
    /\ snap.replica = snap.hist[snap.at]

\* The copy is complete; a transaction that wrote the first and the last
\* page was committed after the copy began and before it completed, and
\* another one after it completed.
C15_Witness ==
  /\ snap.rc = "DONE"
  /\ snap.at > snap.began
  /\ \E k \in (snap.began + 1)..snap.at : snap.hist[k][1] = k - 1 /\ snap.hist[k][MaxPages] = k - 1
  /\ Len(snap.hist) > snap.at

\* The real time at which the file named n was published: its local time
\* less its offset (one call per process; no time passes during a call).
Instant(n) == n.prefix[1] - n.prefix[2]

\* C16: in a backup invocation, no file prune has deleted was published
\* after a file of the class that it has kept, and the file the run has
\* just published is not deleted.
C16_DeletesOldest ==
  \A p \in Procs :
    (op[p] = "backup" /\ Pruning(p)) =>
      /\ \A d \in Deleted(p) :
           \A k \in Glob(seen[p], cfg[p]) \ Deleted(p) : Instant(d) <= Instant(k)
      /\ backup_path(p) \in DOMAIN dir

\* C17: a step of prune leaves every file that does not match the pattern
\* of its class in place and unchanged: the backups of the other classes,
\* the temporary files, the unrelated files.
C17_PruneLeavesOtherFiles ==
  [][\A p \in Procs :
       (pc[p] \in {"prune", "unlink"} /\ (pc'[p] # pc[p] \/ nb'[p] # nb[p])) =>
         \A n \in DOMAIN dir :
           n.suffix # cfg[p] => (n \in DOMAIN dir' /\ dir'[n] = dir[n])]_vars

\* A prune has unlinked a file of its class while the temporary file of
\* another process's run, backups of another class and an unrelated file
\* are in the directory.
C17_Witness ==
  \E p \in Procs, q \in Procs :
    /\ Pruning(p)
    /\ nb[p] > 0
    /\ pc[q] \in RunStages
    /\ tmp[q].name \in DOMAIN dir
    /\ Unrelated \in DOMAIN dir
    /\ \E n \in DOMAIN dir : n.suffix \in FREQS \ {cfg[p]}

\* C18: a class that holds at least as many files as its limit never
\* drops below the limit, whatever the prunes of the two processes and the
\* runs do and however they end.
C18_NeverBelowLimit ==
  [][\A f \in Classes :
       Cardinality(Glob(dir, f)) >= NUM_FREQS[f]
         => Cardinality(Glob(dir', f)) >= NUM_FREQS[f]]_vars

\* Two prunes of the class have interleaved: one has unlinked files, the
\* other one found a file of its listing gone and raised; the limit holds.
C18_Witness ==
  \E p \in Procs, q \in Procs :
    /\ p # q
    /\ cfg[p] = cfg[q]
    /\ Pruning(p) /\ nb[p] > 0
    /\ pc[q] = "raised" /\ exc[q] = "unlink" /\ faults = 0
    /\ Cardinality(Glob(dir, cfg[p])) >= NUM_FREQS[cfg[p]]
    /\ ntmp > 0

\* C19: extract_data never raises (it reads no index past the end), and
\* it returns None when the marker is not in the list.
C19_ExtractNeverRaises ==
  /\ xd.st # "raised"
  /\ (xd.st = "returned" /\ \A k \in 1..Len(xd.objs) : xd.objs[k] # Marker)
       => xd.result = None

====
